---- MODULE Spec2Model ----
(***************************************************************************)
(* A model of the settings writer/verifier and the settings resolver of    *)
(* src/extension/common/settings.ts and of the debugpySockets event relay  *)
(* (DebugpySocketsHandler).                                                *)
(*                                                                         *)
(* The specifications of the module, one per component:                    *)
(*   WriteSpec    updateSetting / verifySetting against the host's         *)
(*                configuration store (FairWriteSpec adds the fairness of  *)
(*                the event loop: synchronous code runs, timers fire);     *)
(*   ResolveSpec  getWorkspaceSettings and its helpers;                    *)
(*   ChangeSpec   checkIfConfigurationChanged;                             *)
(*   RelaySpec    DebugpySocketsHandler.handleCustomEvent.                 *)
(***************************************************************************)
EXTENDS Integers, Sequences, FiniteSets, TLC

VARIABLES
    \* ---- settings writer / verifier ------------------------------------
    cfg,        \* the host store: the setting's value at each of the three scopes
    registered, \* whether inspect() yields an object when no scope holds a value
    pending,    \* a write handed to update() that the store does not show yet
    pc,         \* where the running updateSetting invocation is
    call,       \* updateSetting's parameters, held until its update() settles
    target,     \* configTarget of the running / last invocation
    value,      \* value of the running / last invocation
    setting,    \* what the last configSection.inspect() of the poll returned
    testExec,   \* isTestExecution() as read by this invocation's verifySetting
    unitTest,   \* isUnitTestExecution() as read by this invocation's verifySetting
    retries,    \* the poll's loop counter
    updates,    \* configSection.update() calls of this invocation
    verifies,   \* verifySetting() calls of this invocation
    inspects,   \* configSection.inspect() calls made by verifySetting
    waits,      \* 250 ms timers awaited by verifySetting
    slept,      \* milliseconds spent in those timers
    outcome,    \* how the invocation ended: "none", "returned", "rejected"
    \* ---- settings resolver ---------------------------------------------
    config,     \* the host's configuration for the workspace folder
    includeInterpreter, \* the includeInterpreter argument of the call
    resolved,   \* the list getExtensionSettings returned, empty before the call
    changeEvent, \* the configuration keys the delivered change event affects
    changed,    \* what checkIfConfigurationChanged returned, empty before the call
    \* ---- debug-event relay ---------------------------------------------
    event,      \* the last custom event delivered to handleCustomEvent
    knownPorts, \* the provider's state: ports registered, in order
    forwarded,  \* ports passed to setPortAttribute for the last event
    raised,     \* whether the last handleCustomEvent call failed at its caller
    failing     \* whether setPortAttribute throws when called for the last event

writeVars == <<cfg, registered, pending, pc, call, target, value, setting, testExec,
               unitTest, retries, updates, verifies, inspects, waits, slept, outcome>>
resolveVars == <<config, includeInterpreter, resolved, changeEvent, changed>>
relayVars == <<event, knownPorts, forwarded, raised, failing>>
vars == <<writeVars, resolveVars, relayVars>>

----------------------------------------------------------------------------
(* Bounds of the model.                                                    *)

\* Distinct defined values a setting may take (Undefined is value 0).
NumValues == 2

\* Longest configured string, in tokens, and longest configured list.
MaxLen == 2
MaxList == 1

\* Most socket descriptors in one debugpySockets event.
MaxSockets == 2

\* Program constants.
MaxRetries == 20
WaitMs == 250

----------------------------------------------------------------------------
(* The settings writer / verifier.                                         *)

Undefined == 0
Values == 1..NumValues
MaybeValues == Values \cup {Undefined}

Global == "Global"
Workspace == "Workspace"
WorkspaceFolder == "WorkspaceFolder"
Targets == {Global, Workspace, WorkspaceFolder}
NoTarget == "none"

Stores == [globalValue : MaybeValues, workspaceValue : MaybeValues,
           workspaceFolderValue : MaybeValues]
EmptyStore == [globalValue |-> Undefined, workspaceValue |-> Undefined,
               workspaceFolderValue |-> Undefined]

\* The result of inspect(): `defined` is FALSE when inspect() returns undefined.
NoSetting == [defined |-> FALSE, globalValue |-> Undefined,
              workspaceValue |-> Undefined, workspaceFolderValue |-> Undefined]

NoWrite == [target |-> NoTarget, value |-> Undefined]

\* WorkspaceConfiguration.inspect(setting): the values per scope, or undefined
\* when the store knows nothing about the key.
Inspect ==
    IF cfg = EmptyStore /\ ~registered
    THEN NoSetting
    ELSE [defined |-> TRUE, globalValue |-> cfg.globalValue,
          workspaceValue |-> cfg.workspaceValue,
          workspaceFolderValue |-> cfg.workspaceFolderValue]

\* The store after the write w has landed.
Applied(store, w) ==
    IF w.target = Global THEN [store EXCEPT !.globalValue = w.value]
    ELSE IF w.target = Workspace THEN [store EXCEPT !.workspaceValue = w.value]
    ELSE IF w.target = WorkspaceFolder THEN [store EXCEPT !.workspaceFolderValue = w.value]
    ELSE store

\* getSettingsUriAndTarget: WorkspaceFolder when a folder uri is found (the
\* folder of the resource, else the first workspace folder), Global otherwise.
getSettingsUriAndTarget(resourceInFolder, numFolders) ==
    IF resourceInFolder \/ numFolders > 0 THEN WorkspaceFolder ELSE Global

\* A target taken from getSettingsUriAndTarget even when the caller gave one.
ResolvedTargetFromInfo(section, configTarget, resourceInFolder, numFolders) ==
    IF section = "debugpy" /\ configTarget # Global
    THEN getSettingsUriAndTarget(resourceInFolder, numFolders)
    ELSE IF configTarget # NoTarget THEN configTarget ELSE WorkspaceFolder

\* Lines 170-179 of updateSetting: the target the invocation works with.
ResolvedTarget(section, configTarget, resourceInFolder, numFolders) ==
    LET defaultTarget == IF configTarget # NoTarget THEN configTarget ELSE WorkspaceFolder
        infoTarget == IF section = "debugpy" /\ configTarget # Global
                      THEN getSettingsUriAndTarget(resourceInFolder, numFolders)
                      ELSE defaultTarget
    IN  IF configTarget # NoTarget THEN configTarget ELSE infoTarget

\* A pre-check that looks at the global value whatever the target.
AlreadySetGlobalOnly(currentValue, t, v) ==
    currentValue.defined /\ currentValue.globalValue = v

\* Lines 183-188 of updateSetting: the value is already stored at the target.
AlreadySet(currentValue, t, v) ==
    /\ currentValue.defined
    /\ \/ t = Global /\ currentValue.globalValue = v
       \/ t = Workspace /\ currentValue.workspaceValue = v
       \/ t = WorkspaceFolder /\ currentValue.workspaceFolderValue = v

\* Line 205 of verifySetting: the poll runs in test mode only.
ShouldPollNoUnitCheck(isTest, isUnit) == isTest
ShouldPoll(isTest, isUnit) == isTest /\ ~isUnit

\* Lines 215-221 of verifySetting: the value of the target's scope.
Actual(s, t) ==
    IF t = Global THEN s.globalValue
    ELSE IF t = Workspace THEN s.workspaceValue
    ELSE s.workspaceFolderValue

\* Lines 209-225 of verifySetting: the conditions under which the loop breaks.
PollBreaks(s, t, v) ==
    \/ ~s.defined /\ v = Undefined
    \/ s.defined /\ v # Undefined /\ Actual(s, t) = v

\* Line 229 of verifySetting: the loop condition.
PollAgainOffByOne(n) == n <= MaxRetries
PollAgain(n) == n < MaxRetries

Sections == {"debugpy", "other"}

NoCall == [section |-> "", configTarget |-> NoTarget, resourceInFolder |-> FALSE,
           numFolders |-> 0, live |-> FALSE]

\* updateSetting up to its first await (lines 163-191).
updateSetting(section, v, configTarget, resourceInFolder, numFolders) ==
    LET t == ResolvedTarget(section, configTarget, resourceInFolder, numFolders)
        currentValue == Inspect
    IN  /\ pc = "idle"
        /\ call' = [section |-> section, configTarget |-> configTarget,
                    resourceInFolder |-> resourceInFolder,
                    numFolders |-> numFolders, live |-> TRUE]
        /\ target' = t
        /\ value' = v
        /\ retries' = 0 /\ inspects' = 0 /\ waits' = 0 /\ slept' = 0
        /\ verifies' = 0
        /\ testExec' = FALSE /\ unitTest' = FALSE
        /\ setting' = NoSetting
        /\ IF AlreadySet(currentValue, t, v)
           THEN /\ updates' = 0
                /\ outcome' = "returned"
                /\ UNCHANGED <<cfg, pending, pc>>
           ELSE \* configSection.update(setting, value, configTarget); an
                \* earlier write still in flight is applied before this one.
                /\ updates' = 1
                /\ cfg' = Applied(cfg, pending)
                /\ pending' = [target |-> t, value |-> v]
                /\ pc' = "update"
                /\ outcome' = "none"
        /\ UNCHANGED <<registered, resolveVars, relayVars>>

\* The update promise resolves and verifySetting is entered (lines 192, 205).
UpdateResolved(isTest, isUnit) ==
    /\ pc = "update"
    /\ call' = NoCall
    /\ verifies' = verifies + 1
    /\ testExec' = isTest
    /\ unitTest' = isUnit
    /\ retries' = 0
    /\ IF ShouldPoll(isTest, isUnit)
       THEN pc' = "inspect" /\ outcome' = "none"
       ELSE pc' = "idle" /\ outcome' = "returned"
    /\ UNCHANGED <<cfg, registered, pending, target, value, setting, updates,
                   inspects, waits, slept, resolveVars, relayVars>>

\* The update promise rejects: the rejection leaves updateSetting (line 191).
UpdateRejected ==
    /\ pc = "update"
    /\ pc' = "idle"
    /\ call' = NoCall
    /\ outcome' = "rejected"
    /\ pending' = NoWrite
    /\ UNCHANGED <<cfg, registered, target, value, setting, testExec, unitTest,
                   retries, updates, verifies, inspects, waits, slept,
                   resolveVars, relayVars>>

\* One inspection of the poll (lines 208-225).
VerifyInspect ==
    /\ pc = "inspect"
    /\ setting' = Inspect
    /\ inspects' = inspects + 1
    /\ IF PollBreaks(Inspect, target, value)
       THEN pc' = "idle" /\ outcome' = "returned"
       ELSE pc' = "wait" /\ outcome' = "none"
    /\ UNCHANGED <<cfg, registered, pending, call, target, value, testExec, unitTest,
                   retries, updates, verifies, waits, slept, resolveVars, relayVars>>

\* A poll that writes again when the value has not shown up.
VerifyWaitRewrites ==
    /\ pc = "wait"
    /\ waits' = waits + 1
    /\ slept' = slept + WaitMs
    /\ retries' = retries + 1
    /\ updates' = updates + 1
    /\ pending' = [target |-> target, value |-> value]
    /\ IF retries + 1 < MaxRetries
       THEN pc' = "inspect" /\ outcome' = "none"
       ELSE pc' = "idle" /\ outcome' = "returned"
    /\ UNCHANGED <<cfg, registered, call, target, value, setting, testExec,
                   unitTest, verifies, inspects, resolveVars, relayVars>>

\* A poll that fails its caller when it gives up.
VerifyWaitThrowsOnGiveUp ==
    /\ pc = "wait"
    /\ waits' = waits + 1
    /\ slept' = slept + WaitMs
    /\ retries' = retries + 1
    /\ IF retries + 1 < MaxRetries
       THEN pc' = "inspect" /\ outcome' = "none"
       ELSE pc' = "idle" /\ outcome' = "rejected"
    /\ UNCHANGED <<cfg, registered, pending, call, target, value, setting, testExec,
                   unitTest, updates, verifies, inspects, resolveVars, relayVars>>

\* The 250 ms timer fires and the loop condition is tested (lines 227-229).
VerifyWait ==
    /\ pc = "wait"
    /\ waits' = waits + 1
    /\ slept' = slept + WaitMs
    /\ retries' = retries + 1
    /\ IF PollAgain(retries + 1)
       THEN pc' = "inspect" /\ outcome' = "none"
       ELSE pc' = "idle" /\ outcome' = "returned"
    /\ UNCHANGED <<cfg, registered, pending, call, target, value, setting, testExec,
                   unitTest, updates, verifies, inspects, resolveVars, relayVars>>

\* The host: the store refreshes and shows the write ("Wait for settings to
\* get refreshed", line 226); it may do so at any time, or never.
Land ==
    /\ pending # NoWrite
    /\ cfg' = Applied(cfg, pending)
    /\ pending' = NoWrite
    /\ UNCHANGED <<registered, pc, call, target, value, setting, testExec, unitTest,
                   retries, updates, verifies, inspects, waits, slept, outcome,
                   resolveVars, relayVars>>

----------------------------------------------------------------------------
(* The settings resolver.                                                  *)
(*                                                                         *)
(* A string is a sequence of tokens; the placeholder ${workspaceFolder} is *)
(* one token, so that its occurrences in a string can be counted.          *)

Placeholder == "${workspaceFolder}"
Tokens == {Placeholder, "a"}

RECURSIVE SeqsUpTo(_, _)
\* The sequences over S of length at most n.
SeqsUpTo(S, n) ==
    IF n = 0 THEN {<<>>}
    ELSE LET shorter == SeqsUpTo(S, n - 1)
         IN  shorter \cup {Append(q, x) : q \in shorter, x \in S}

Strings == SeqsUpTo(Tokens, MaxLen)
Lists == SeqsUpTo(Strings, MaxList)

\* workspace.uri.fsPath and workspace.uri.toString() of the workspace folder.
FsPath == <<"/ws">>
WorkspaceUri == <<"file:///ws">>

\* The legacy value that stands for "no path configured".
Black == <<"black">>

\* A configuration key: absent, or present with a value.
Present(v) == [present |-> TRUE, val |-> v]
Absent(v) == [present |-> FALSE, val |-> v]

\* WorkspaceConfiguration.get(key, defaultValue).
Get(key, defaultValue) == IF key.present THEN key.val ELSE defaultValue

DEFAULT_SEVERITY_RefactorInformation ==
    [convention |-> "Information", error |-> "Error", fatal |-> "Error",
     refactor |-> "Information", warning |-> "Warning", info |-> "Information"]

DEFAULT_SEVERITY ==
    [convention |-> "Information", error |-> "Error", fatal |-> "Error",
     refactor |-> "Hint", warning |-> "Warning", info |-> "Information"]

\* Index of the first placeholder token of s, 0 when there is none.
FirstPlaceholder(s) ==
    IF \E i \in DOMAIN s : s[i] = Placeholder
    THEN CHOOSE i \in DOMAIN s :
            /\ s[i] = Placeholder
            /\ \A j \in 1..(i - 1) : s[j] # Placeholder
    ELSE 0

\* value.replace('${workspaceFolder}', workspace.uri.fsPath): a string pattern
\* replaces its first occurrence only.
resolveWorkspace(fsPath, s) ==
    LET i == FirstPlaceholder(s)
    IN  IF i = 0 THEN s
        ELSE SubSeq(s, 1, i - 1) \o fsPath \o SubSeq(s, i + 1, Len(s))

\* Array.prototype.map with resolveWorkspace.
ResolveAll(fsPath, list) == [i \in DOMAIN list |-> resolveWorkspace(fsPath, list[i])]

getArgs(c) ==
    LET args == Get(c.args, <<>>)
    IN  IF Len(args) > 0 THEN args ELSE <<>>

getPathLegacyFirst(c) ==
    LET path == Get(c.path, <<>>)
        legacyPath == Get(c.blackPath, <<>>)
    IN  IF Len(legacyPath) > 0 /\ legacyPath # Black THEN <<legacyPath>>
        ELSE IF Len(path) > 0 THEN path
        ELSE <<>>

getPath(c) ==
    LET path == Get(c.path, <<>>)
        legacyPath == Get(c.blackPath, <<>>)
    IN  IF Len(path) > 0 THEN path
        ELSE IF Len(legacyPath) > 0 /\ legacyPath # Black THEN <<legacyPath>>
        ELSE <<>>

\* `if (legacyCwd)`: an absent or empty string is falsy.
getCwd(c) ==
    IF c.lintingCwd.present /\ c.lintingCwd.val # <<>>
    THEN resolveWorkspace(FsPath, c.lintingCwd.val)
    ELSE FsPath

getExtraPaths(c) == Get(c.extraPaths, <<>>)

\* Lines 113-119: the interpreter list before placeholders are resolved.
InterpreterOf(c, include) ==
    IF ~include THEN <<>>
    ELSE IF ~c.interpreter.present \/ Len(c.interpreter.val) = 0
         THEN Get(c.detailsPath, <<>>)
         ELSE c.interpreter.val

getWorkspaceSettings(c, include) ==
    [cwd |-> getCwd(c),
     workspace |-> WorkspaceUri,
     args |-> ResolveAll(FsPath, getArgs(c)),
     severity |-> Get(c.severity, DEFAULT_SEVERITY),
     path |-> ResolveAll(FsPath, getPath(c)),
     interpreter |-> ResolveAll(FsPath, InterpreterOf(c, include)),
     importStrategy |-> Get(c.importStrategy, "fromEnvironment"),
     showNotifications |-> Get(c.showNotifications, "off"),
     extraPaths |-> ResolveAll(FsPath, getExtraPaths(c))]

\* The configuration with no key set.
NoConfig ==
    [args |-> Absent(<<>>), path |-> Absent(<<>>), severity |-> Absent(DEFAULT_SEVERITY),
     interpreter |-> Absent(<<>>), importStrategy |-> Absent(""),
     showNotifications |-> Absent(""), blackPath |-> Absent(<<>>),
     lintingCwd |-> Absent(<<>>), extraPaths |-> Absent(<<>>),
     detailsPath |-> Absent(<<>>)]

Severities ==
    {[convention |-> "Error", error |-> "Error", fatal |-> "Error",
      refactor |-> "Error", warning |-> "Error", info |-> "Error"],
     [error |-> "Warning"]}

\* The values each key may be set to.
ValuesOf(k) ==
    IF k \in {"args", "path", "interpreter", "extraPaths", "detailsPath"} THEN Lists
    ELSE IF k = "lintingCwd" THEN Strings
    ELSE IF k = "blackPath" THEN Strings \cup {Black}
    ELSE IF k = "severity" THEN Severities
    ELSE IF k = "importStrategy" THEN {"useBundled"}
    ELSE {"always"}

Keys == DOMAIN NoConfig

\* Keys that one getter reads together.
ReadTogether == {<<"path", "blackPath">>, <<"interpreter", "detailsPath">>}

\* The configurations read: no key set, one key set, or two keys set that are
\* read together.
ConfigRead(c) ==
    \/ c = NoConfig
    \/ \E k \in Keys : \E v \in ValuesOf(k) : c = [NoConfig EXCEPT ![k] = Present(v)]
    \/ \E p \in ReadTogether : \E v \in ValuesOf(p[1]), w \in ValuesOf(p[2]) :
          c = [NoConfig EXCEPT ![p[1]] = Present(v), ![p[2]] = Present(w)]

\* getExtensionSettings with one workspace folder: the folder's settings are
\* resolved and pushed on the list returned.
getExtensionSettings ==
    /\ resolved = <<>>
    /\ resolved' = Append(resolved, getWorkspaceSettings(config, includeInterpreter))
    /\ UNCHANGED <<config, includeInterpreter, changeEvent, changed,
                   writeVars, relayVars>>

\* The keys a change event may affect: the keys of the namespace, named
\* without the namespace prefix, and a key of another namespace.
NamespaceKeys == {"trace", "args", "path", "severity", "interpreter",
                  "importStrategy", "showNotifications", "envFile"}
EventKeys == NamespaceKeys \cup {"python.linting.cwd"}

\* The keys checkIfConfigurationChanged asks the event about (lines 139-146).
WatchedSettings == {"trace", "args", "path", "interpreter", "importStrategy",
                    "showNotifications"}

\* e.affectsConfiguration(`${namespace}.${key}`).
affectsConfiguration(e, key) == key \in e

\* checkIfConfigurationChanged(e, namespace) (lines 138-149).
checkIfConfigurationChanged(e) ==
    \E key \in WatchedSettings : affectsConfiguration(e, key)

\* The host delivers a configuration change event and the extension asks
\* whether its settings changed.
CheckIfConfigurationChanged ==
    /\ changed = <<>>
    /\ changed' = Append(changed, checkIfConfigurationChanged(changeEvent))
    /\ UNCHANGED <<config, includeInterpreter, resolved, changeEvent,
                   writeVars, relayVars>>

----------------------------------------------------------------------------
(* The debug-event relay.                                                  *)

DebuggerTypeName == "debugpy"
DebugpySockets == "debugpySockets"

SessionTypes == {DebuggerTypeName, "node"}
EventNames == {DebugpySockets, "debugpyAttach"}
Ports == {5678, 5679}

\* socket['internal'] as the adapter may send it.
Internals == {"false", "true", "undefined"}
Sockets == [port : Ports, internal : Internals]

\* event.body: missing, without a sockets list, or with one.
Bodies ==
    {[present |-> FALSE, hasSockets |-> FALSE, sockets |-> <<>>],
     [present |-> TRUE, hasSockets |-> FALSE, sockets |-> <<>>]}
    \cup {[present |-> TRUE, hasSockets |-> TRUE, sockets |-> l] :
            l \in SeqsUpTo(Sockets, MaxSockets)}

NoBody == [present |-> FALSE, hasSockets |-> FALSE, sockets |-> <<>>]

\* The event handed to the handler; `present` is FALSE for a missing event.
NoEvent == [present |-> FALSE, type |-> "", event |-> "", body |-> NoBody]
Events ==
    {NoEvent}
    \cup {[present |-> TRUE, type |-> t, event |-> n, body |-> b] :
            t \in SessionTypes, n \in EventNames, b \in Bodies}

\* The predicate given to find (lines 31-33).
IsExternalFalsy(socket) == socket.internal # "true"
IsExternal(socket) == socket.internal = "false"

\* A search that yields the last socket the predicate accepts.
FindLast(sockets) ==
    IF \E i \in DOMAIN sockets : IsExternal(sockets[i])
    THEN CHOOSE i \in DOMAIN sockets :
            /\ IsExternal(sockets[i])
            /\ \A j \in (i + 1)..Len(sockets) : ~IsExternal(sockets[j])
    ELSE 0

\* Array.prototype.find: the index of the first socket the predicate accepts,
\* 0 when there is none.
Find(sockets) ==
    IF \E i \in DOMAIN sockets : IsExternal(sockets[i])
    THEN CHOOSE i \in DOMAIN sockets :
            /\ IsExternal(sockets[i])
            /\ \A j \in 1..(i - 1) : ~IsExternal(sockets[j])
    ELSE 0

\* Line 25: the event is missing or belongs to another debugger's session.
NotOursTypeIgnored(e) == ~e.present
NotOurs(e) == ~e.present \/ e.type # DebuggerTypeName

\* What a call does: the ports passed to setPortAttribute, the ports the
\* provider added, and whether an exception left the call.
Quiet == [calls |-> <<>>, added |-> {}, threw |-> FALSE]
Thrown == [calls |-> <<>>, added |-> {}, threw |-> TRUE]

\* DebugPortAttributesProvider.setPortAttribute(port): registers the port,
\* unless it throws.
setPortAttribute(port, fails) ==
    IF fails THEN [calls |-> <<port>>, added |-> {}, threw |-> TRUE]
    ELSE [calls |-> <<port>>, added |-> {port}, threw |-> FALSE]

\* The body of handleCustomEvent (lines 25-39).
HandlerBody(e, fails) ==
    IF NotOurs(e) THEN Quiet
    ELSE IF e.event = DebugpySockets
    THEN IF ~e.body.present \/ ~e.body.hasSockets
         THEN Thrown     \* TypeError: event.body.sockets.find on undefined
         ELSE LET i == Find(e.body.sockets)
              IN  IF i # 0 THEN setPortAttribute(e.body.sockets[i].port, fails)
                  ELSE Quiet
    ELSE Quiet

\* The decorator: an exception or rejection of the wrapped method is caught.
swallowExceptions(result) == [result EXCEPT !.threw = FALSE]

handleCustomEventUndecorated(e, fails) == HandlerBody(e, fails)

\* The decorated method (lines 23-40).
handleCustomEvent(e, fails) == swallowExceptions(HandlerBody(e, fails))

\* The host delivers a custom event of some debug session.
HandleCustomEvent ==
    \E e \in Events, fails \in BOOLEAN :
        LET r == handleCustomEvent(e, fails)
        IN  /\ event' = e
            /\ failing' = fails
            /\ forwarded' = r.calls
            /\ knownPorts' = knownPorts \cup r.added
            /\ raised' = r.threw
            /\ UNCHANGED <<writeVars, resolveVars>>

----------------------------------------------------------------------------
(* The specifications.                                                     *)

WriteBase ==
    /\ cfg = EmptyStore
    /\ pending = NoWrite
    /\ pc = "idle"
    /\ call = NoCall
    /\ target = NoTarget
    /\ value = Undefined
    /\ setting = NoSetting
    /\ testExec = FALSE
    /\ unitTest = FALSE
    /\ retries = 0 /\ updates = 0 /\ verifies = 0
    /\ inspects = 0 /\ waits = 0 /\ slept = 0
    /\ outcome = "none"

ResolveBase ==
    /\ config = NoConfig
    /\ includeInterpreter = FALSE
    /\ resolved = <<>>
    /\ changeEvent = {}
    /\ changed = <<>>

RelayBase ==
    /\ event = NoEvent
    /\ knownPorts = {}
    /\ forwarded = <<>>
    /\ raised = FALSE
    /\ failing = FALSE

WriteInit ==
    /\ WriteBase /\ ResolveBase /\ RelayBase
    /\ registered \in BOOLEAN

WriteNext ==
    \/ \E section \in Sections, v \in MaybeValues,
          configTarget \in Targets \cup {NoTarget},
          resourceInFolder \in BOOLEAN, numFolders \in 0..1 :
            \* a resource lies in a folder only when there are workspace folders
            /\ resourceInFolder => numFolders > 0
            /\ updateSetting(section, v, configTarget, resourceInFolder, numFolders)
    \/ \E isTest \in BOOLEAN, isUnit \in BOOLEAN : UpdateResolved(isTest, isUnit)
    \/ UpdateRejected
    \/ VerifyInspect
    \/ VerifyWait
    \/ Land

WriteSpec == WriteInit /\ [][WriteNext]_vars

\* The event loop runs ready code and fires timers.
FairWriteSpec ==
    /\ WriteSpec
    /\ WF_vars(VerifyInspect)
    /\ WF_vars(VerifyWait)


ResolveInit ==
    /\ WriteBase /\ RelayBase /\ registered = TRUE
    /\ ConfigRead(config)
    /\ includeInterpreter \in BOOLEAN
    /\ resolved = <<>>
    /\ changeEvent = {}
    /\ changed = <<>>

ResolveNext == getExtensionSettings

ResolveSpec == ResolveInit /\ [][ResolveNext]_vars

ChangeInit ==
    /\ WriteBase /\ RelayBase /\ registered = TRUE
    /\ config = NoConfig
    /\ includeInterpreter = FALSE
    /\ resolved = <<>>
    /\ changeEvent \in SUBSET EventKeys
    /\ changed = <<>>

ChangeNext == CheckIfConfigurationChanged

ChangeSpec == ChangeInit /\ [][ChangeNext]_vars

RelayInit == WriteBase /\ ResolveBase /\ RelayBase /\ registered = TRUE

RelayNext == HandleCustomEvent

RelaySpec == RelayInit /\ [][RelayNext]_vars

----------------------------------------------------------------------------
(* Properties of the settings writer / verifier.                           *)

Polling == pc \in {"inspect", "wait"}

\* C1: when the test-execution flag is not set, or the run is a unit-test
\* execution, verifySetting makes no inspect call and awaits no timer, and
\* returns at once.
C1_PollOnlyInTestMode ==
    (verifies > 0 /\ ~(testExec /\ ~unitTest)) =>
        /\ inspects = 0 /\ waits = 0 /\ slept = 0
        /\ pc = "idle" /\ outcome = "returned"

C1_Witness ==
    /\ verifies = 1 /\ updates = 1
    /\ testExec /\ unitTest
    /\ outcome = "returned"

\* C2: in test mode the poll stops at the first inspection whose target-scope
\* value equals the written value, for every written value (an unset value
\* that reads back as undefined included); a write observed at inspection k
\* costs exactly k inspections and k-1 waits.
C2_StopsAtFirstObservation ==
    /\ pc = "wait" => Actual(setting, target) # value
    /\ (pc = "idle" /\ inspects > 0 /\ Actual(setting, target) = value)
          => waits = inspects - 1

\* C3: in test mode verifySetting terminates: at most 20 inspections and at
\* most 20 waits of 250 ms whatever the store does, exactly 20 inspections
\* when the last of them still does not show the written value, and the poll
\* always comes to an end.
C3_PollTerminates ==
    /\ [](/\ inspects <= 20 /\ waits <= 20 /\ slept <= 20 * 250
          /\ waits <= inspects)
    /\ []((pc = "idle" /\ inspects > 0 /\ Actual(setting, target) # value)
            => (inspects = 20 /\ waits = 20 /\ outcome = "returned"))
    /\ (Polling ~> pc = "idle")

C3_Witness ==
    /\ pc = "idle" /\ outcome = "returned"
    /\ inspects = 20 /\ waits = 20
    /\ Actual(setting, target) # value

\* C9: one updateSetting invocation calls update at most once, and the poll
\* that follows only reads: while it runs no further write is issued.
C9_NoRetryOfWrites ==
    /\ [](updates <= 1)
    /\ [][Polling => (updates' = updates /\ pending' \in {pending, NoWrite})]_vars

C9_Witness ==
    /\ pc = "wait" /\ retries = MaxRetries - 1
    /\ updates = 1 /\ inspects = MaxRetries
    /\ pending # NoWrite

\* The target the claim names for a call with parameters c.
TargetPerClaim(c) ==
    IF c.configTarget # NoTarget THEN c.configTarget
    ELSE IF c.section # "debugpy" THEN WorkspaceFolder
    ELSE IF c.resourceInFolder \/ c.numFolders > 0 THEN WorkspaceFolder
    ELSE Global

\* A step of updateSetting that returns at its pre-check.
ReturnsAtPreCheck ==
    /\ pc = "idle" /\ pc' = "idle"
    /\ call'.live /\ updates' = 0
    /\ pending' = pending

\* C12: updateSetting works at the target the caller gave; with none given
\* the target is WorkspaceFolder when a workspace folder is found and Global
\* when there is none, for section 'debugpy', and WorkspaceFolder for any
\* other section.  The update call, the equality pre-check and the poll all
\* use that target's scope.
C12_WritesAtRequestedScope ==
    /\ [](call.live => target = TargetPerClaim(call))
    /\ [][(pc = "idle" /\ pc' = "update")
            => pending' = [target |-> target', value |-> value']]_vars
    /\ [][ReturnsAtPreCheck => Actual(cfg, target') = value']_vars
    /\ [][Polling => (target' = target /\ value' = value)]_vars
    /\ []((pc = "idle" /\ inspects > 0 /\ waits < inspects)
            => Actual(setting, target) = value)

C12_Witness ==
    /\ pc = "update" /\ call.live
    /\ call.section = "debugpy" /\ call.configTarget = NoTarget
    /\ ~call.resourceInFolder /\ call.numFolders = 0
    /\ target = Global /\ pending.target = Global

\* C13: when the poll gives up after 20 inspections updateSetting still
\* completes normally, after its single update call; a rejection of the
\* update call reaches the caller and no verification poll is started.
C13_GiveUpIsSilent ==
    /\ (pc = "idle" /\ inspects = 20 /\ waits = 20)
          => (outcome = "returned" /\ updates = 1)
    /\ outcome = "rejected"
          => (pc = "idle" /\ updates = 1 /\ verifies = 0 /\ inspects = 0 /\ waits = 0)

C13_Witness ==
    /\ pc = "idle" /\ outcome = "returned"
    /\ updates = 1 /\ verifies = 1
    /\ inspects = 20 /\ waits = 20
    /\ pending # NoWrite

\* A step of updateSetting up to its first await (the only other step taken
\* from "idle" is the store showing a write, which empties `pending`).
UpdateSettingStep ==
    /\ pc = "idle"
    /\ ~(pending # NoWrite /\ pending' = NoWrite)

\* The step calls neither update nor verifySetting and leaves the store alone.
WritesNothing ==
    /\ updates' = 0 /\ verifies' = 0
    /\ pc' = "idle" /\ outcome' = "returned"
    /\ cfg' = cfg /\ pending' = pending

\* C14 as stated: whenever the value stored at the resolved target scope is
\* identical to the requested value, updateSetting calls neither update nor
\* the poll and leaves the store unchanged.
C14_IdempotentOnUnchangedStore ==
    [][(UpdateSettingStep /\ Actual(cfg, target') = value') => WritesNothing]_vars

\* C14 as amended: the same, when inspect() returns an object.
C14_IdempotentWhenInspectable ==
    [][(UpdateSettingStep /\ Inspect.defined /\ Actual(cfg, target') = value')
          => WritesNothing]_vars

C14_Witness ==
    /\ pc = "idle" /\ outcome = "returned"
    /\ call.live /\ updates = 0
    /\ value # Undefined /\ target = Workspace
    /\ cfg.workspaceValue = value /\ cfg.globalValue # value
    /\ pending = NoWrite

----------------------------------------------------------------------------
(* Properties of the settings resolver.                                    *)

Count(token, s) == Cardinality({i \in DOMAIN s : s[i] = token})

\* r is s with each placeholder replaced by the workspace folder's path.
FullyResolved(s, r) ==
    /\ Count(Placeholder, r) = 0
    /\ Count(FsPath[1], r) = Count(Placeholder, s)
    /\ Len(r) = Len(s)

EachFullyResolved(list, result) ==
    /\ Len(result) = Len(list)
    /\ \A i \in DOMAIN list : FullyResolved(list[i], result[i])

\* C7: in the record getWorkspaceSettings returns, every occurrence of the
\* placeholder in cwd, in each element of args, path, interpreter and
\* extraPaths is replaced by the workspace folder's path: n occurrences give
\* n copies of the path and no placeholder is left.
C7_EveryOccurrenceReplaced ==
    \A n \in DOMAIN resolved :
        /\ EachFullyResolved(getArgs(config), resolved[n].args)
        /\ EachFullyResolved(getPath(config), resolved[n].path)
        /\ EachFullyResolved(InterpreterOf(config, includeInterpreter),
                             resolved[n].interpreter)
        /\ EachFullyResolved(getExtraPaths(config), resolved[n].extraPaths)
        /\ (config.lintingCwd.present /\ config.lintingCwd.val # <<>>)
              => FullyResolved(config.lintingCwd.val, resolved[n].cwd)

\* C8: when the severity key is absent the severity of the resolved record is
\* the default mapping; when it is present the configured mapping is returned
\* unchanged.
C8_SeverityDefault ==
    \A n \in DOMAIN resolved :
        /\ ~config.severity.present =>
              resolved[n].severity =
                  [convention |-> "Information", error |-> "Error", fatal |-> "Error",
                   refactor |-> "Hint", warning |-> "Warning", info |-> "Information"]
        /\ config.severity.present => resolved[n].severity = config.severity.val

C8_Witness ==
    /\ Len(resolved) = 1
    /\ ~config.severity.present
    /\ config.args.present /\ config.args.val # <<>>
    /\ resolved[1].args # <<>>
    /\ resolved[1].severity.refactor = "Hint"

\* The path list the claim describes, before placeholders are resolved.
PathPerClaim ==
    IF config.path.present /\ config.path.val # <<>> THEN config.path.val
    ELSE IF /\ config.blackPath.present
            /\ config.blackPath.val # <<>>
            /\ config.blackPath.val # Black
         THEN <<config.blackPath.val>>
         ELSE <<>>

\* C10: the path setting is the namespaced path list when that is non-empty
\* (the legacy key is then ignored); otherwise it is the one-element list of
\* the legacy formatting.blackPath when that is non-empty and not 'black',
\* and the empty list otherwise.
C10_PathFallback ==
    \A n \in DOMAIN resolved :
        resolved[n].path =
            [i \in DOMAIN PathPerClaim |-> resolveWorkspace(FsPath, PathPerClaim[i])]

C10_Witness ==
    /\ Len(resolved) = 1
    /\ config.path.present /\ config.path.val = <<>>
    /\ config.blackPath.present /\ config.blackPath.val = <<"a">>
    /\ resolved[1].path = << <<"a">> >>

\* The namespaced keys getWorkspaceSettings reads.
ResolverKeys == {"args", "path", "severity", "interpreter", "importStrategy",
                 "showNotifications"}

\* C11: checkIfConfigurationChanged returns true whenever the event affects
\* a namespaced key the settings resolver reads (args, path, severity,
\* interpreter, importStrategy, showNotifications), and false when the event
\* affects none of the namespace's keys.
C11_ChangeOfResolverKeyDetected ==
    \A n \in DOMAIN changed :
        /\ (changeEvent \cap ResolverKeys # {}) => changed[n]
        /\ (changeEvent \cap NamespaceKeys = {}) => ~changed[n]

----------------------------------------------------------------------------
(* Properties of the debug-event relay.                                    *)

\* The event is a debugpySockets event of one of this debugger's sessions.
Matching(e) == e.present /\ e.type = DebuggerTypeName /\ e.event = DebugpySockets

\* The ports of the sockets of e whose internal field is exactly false.
ExternalPorts(e) ==
    {e.body.sockets[i].port :
        i \in {j \in DOMAIN e.body.sockets : e.body.sockets[j].internal = "false"}}

\* C4: every port passed to setPortAttribute is the port of an entry of
\* event.body.sockets whose internal field is exactly false; with no such
\* entry setPortAttribute is not called.
C4_OnlyExternalPortsForwarded ==
    \A i \in DOMAIN forwarded : forwarded[i] \in ExternalPorts(event)

C4_Witness ==
    /\ Matching(event)
    /\ Len(event.body.sockets) = 2
    /\ event.body.sockets[1].internal = "undefined"
    /\ event.body.sockets[2].internal = "false"
    /\ event.body.sockets[1].port # event.body.sockets[2].port
    /\ forwarded = <<event.body.sockets[2].port>>
    /\ ~failing /\ event.body.sockets[2].port \in knownPorts

\* C5: for a missing event, a session of another type or another event name
\* setPortAttribute is not called and the provider's state is unchanged.
C5_OnlyMatchingEventsAct ==
    [][~Matching(event') => (forwarded' = <<>> /\ knownPorts' = knownPorts)]_vars

C5_Witness ==
    /\ event.present /\ event.type # DebuggerTypeName
    /\ event.event = DebugpySockets
    /\ ExternalPorts(event) # {}
    /\ forwarded = <<>> /\ knownPorts = {}

\* C6: no call of handleCustomEvent fails at its caller, whatever the payload
\* and even when setPortAttribute throws, and events keep being handled: a
\* well-formed event with an external socket is forwarded and registered.
C6_FailuresSwallowed ==
    /\ ~raised
    /\ (Matching(event) /\ ExternalPorts(event) # {} /\ ~failing) =>
          (forwarded # <<>> /\ forwarded[1] \in knownPorts)

C6_Witness ==
    /\ Matching(event) /\ ~event.body.present
    /\ ~raised /\ forwarded = <<>>

\* C15: for one debugpySockets event setPortAttribute is called at most once,
\* with the port of the first entry in list order whose internal field is
\* false; further non-internal entries of the event are not forwarded.
C15_FirstExternalPortOnly ==
    /\ Len(forwarded) <= 1
    /\ forwarded # <<>> =>
          \E i \in DOMAIN event.body.sockets :
              /\ event.body.sockets[i].internal = "false"
              /\ \A j \in 1..(i - 1) : event.body.sockets[j].internal # "false"
              /\ forwarded = <<event.body.sockets[i].port>>
    /\ (Matching(event) /\ ExternalPorts(event) # {}) => Len(forwarded) = 1

C15_Witness ==
    /\ Matching(event)
    /\ Len(event.body.sockets) = 2
    /\ event.body.sockets[1].internal = "false"
    /\ event.body.sockets[2].internal = "false"
    /\ event.body.sockets[1].port # event.body.sockets[2].port
    /\ forwarded = <<event.body.sockets[1].port>>
    /\ ~failing /\ knownPorts = {event.body.sockets[1].port}

====
